---- MODULE Spec2Model ----
(***************************************************************************)
(* Model of build_offline_windows_package.py: the AiderWindowsBuilder      *)
(* pipeline (build() and its stages), the external commands it runs, the   *)
(* ephemeral workspace and the output directory.                           *)
(*                                                                         *)
(* A Python exception in flight is modelled by its class as far as the     *)
(* handlers of this file distinguish it:                                   *)
(*   "none"        no exception                                            *)
(*   "SystemExit"  raised by sys.exit (a BaseException, not an Exception)  *)
(*   "CalledProcessError"  the Exception subclass run_command re-raises    *)
(*   "Exception"   any other subclass of Exception (OSError, ...)          *)
(* Paths are sequences of path components; None is the empty path.         *)
(* External commands, the network, the local checkout and file-system      *)
(* errors inside the stages are inputs chosen with \E.  shutil.rmtree of   *)
(* the workspace in cleanup() is taken to remove the tree.  A tree is a    *)
(* function from the relative paths of its files to their contents.        *)
(***************************************************************************)
EXTENDS Integers, Sequences, FiniteSets, TLC

VARIABLES
    run,            \* number of the current process invocation (1, 2, ..)
    pc,             \* position inside build(): next stage, "except", "finally", "terminated"
    exc,            \* exception in flight inside build()
    exitStatus,     \* process exit status once pc = "terminated" (-1 before)
    out,            \* lines printed by this process (log / error)
    cmds,           \* external commands attempted by this process, in order
    started,        \* stages started by this process, in order
    cleaned,        \* cleanup() has been executed by this process
    clock,          \* wall clock, in ticks
    startTime,      \* clock value when this process started build()
    lastStageTime,  \* clock value when the latest stage of this process started
    self,           \* the AiderWindowsBuilder fields
    fs,             \* set of paths that exist below the temporary root
    exeTree,        \* the staged tree at self.exe_dir (files with contents)
    outDir,         \* the output directory: final directory and archive
    datas,          \* data mappings of the freeze descriptor as evaluated by the freezer
    copied,         \* the staged tree as it was when copytree copied it
    prior           \* the output directory as it was when this process started

vars == <<run, pc, exc, exitStatus, out, cmds, started, cleaned, clock,
          startTime, lastStageTime, self, fs, exeTree, outDir, datas, copied,
          prior>>

---------------------------------------------------------------------------
(* Bounds *)

MaxRuns == 2
MaxClock == 2
TicksPerSecond == 2

---------------------------------------------------------------------------
(* Paths *)

None == <<>>

IsPrefix(root, p) ==
    /\ Len(root) <= Len(p)
    /\ SubSeq(p, 1, Len(root)) = root

\* p lies under root (root itself included)
Under(p, root) == root # None /\ IsPrefix(root, p)

TmpRoot == <<"tmp">>

\* tempfile.mkdtemp(prefix="aider_build_"): a fresh, uniquely named directory
Mkdtemp(r) == TmpRoot \o <<"aider_build_" \o ToString(r)>>

\* os.name of the machine the builder runs on
OsName == "nt"

---------------------------------------------------------------------------
(* Printing and errors *)

Line(lvl, msg, arg) == [lvl |-> lvl, msg |-> msg, arg |-> arg]

\* the effect of a statement: lines printed, commands attempted, exception raised
Step(o, c, r) == [out |-> o, cmds |-> c, raise |-> r]

Error_NoExit(msg, arg) == Step(<<Line("ERROR", msg, arg)>>, <<>>, "none")

\* log(): prints and returns
Log(msg, arg) == Step(<<Line("BUILD", msg, arg)>>, <<>>, "none")

\* error(): prints, then sys.exit(1) raises SystemExit
Error(msg, arg) == Step(<<Line("ERROR", msg, arg)>>, <<>>, "SystemExit")

\* statement sequencing: b runs only when a did not raise
Then(a, b) ==
    IF a.raise # "none" THEN a
    ELSE Step(a.out \o b.out, a.cmds \o b.cmds, b.raise)

Skip == Step(<<>>, <<>>, "none")

Raise(kind) == Step(<<>>, <<>>, kind)

\* `except Exception` (build) catches every Exception, never SystemExit
ExceptExceptionCatches(kind) == kind \in {"Exception", "CalledProcessError"}

\* `except subprocess.CalledProcessError as e` (download_tiktoken_encodings)
ExceptCalledProcessErrorCatches(kind) == kind = "CalledProcessError"

\* `except subprocess.CalledProcessError` (run_command)
IsCalledProcessError(res) == res.kind = "nonzero"

BareExceptCatches_ExceptionOnly(kind) == kind \in {"Exception", "CalledProcessError"}

\* bare `except:` (install_dependencies) catches every BaseException
BareExceptCatches(kind) == kind \in {"Exception", "CalledProcessError", "SystemExit"}

---------------------------------------------------------------------------
(* External commands *)

\* outcome of subprocess.run: exit status zero, exit status non-zero
\* (CalledProcessError because check=True), or the process could not be
\* started (OSError)
OkOut   == [kind |-> "ok", returncode |-> 0, stdout |-> "so", stderr |-> ""]
OkQuiet == [kind |-> "ok", returncode |-> 0, stdout |-> "", stderr |-> ""]
Failed  == [kind |-> "nonzero", returncode |-> 1, stdout |-> "so", stderr |-> "se"]
OsErr   == [kind |-> "oserror", returncode |-> -1, stdout |-> "", stderr |-> ""]

\* outcomes drawn for the environment-creation command, for the installer
\* and freezer commands, and for the optional installs
CmdResults == {OkOut, OkQuiet, Failed, OsErr}
PipResults == {OkOut, Failed, OsErr}
OptResults == {OkOut, Failed}

\* subprocess.run(cmd, cwd=cwd, check=True, capture_output=True): a cwd that
\* does not exist makes it raise before the command runs
SubprocessRun(cwd, res) ==
    IF cwd # None /\ cwd \notin fs THEN OsErr ELSE res

\* run_command(cmd, cwd, check=True)
RunCommand(cmd, cwd, res) ==
    LET result == SubprocessRun(cwd, res)
        pre == Then(Log("Running", cmd),
               Then(IF cwd # None THEN Log("In directory", "") ELSE Skip,
                    Step(<<>>, <<[cmd |-> cmd, kind |-> result.kind]>>, "none")))
    IN  IF result.kind = "oserror"
        THEN Then(pre, Raise("Exception"))
        ELSE IF IsCalledProcessError(result)
        THEN Then(pre,
             Then(Error("Command failed with return code", ToString(result.returncode)),
             Then(Error("STDOUT", result.stdout),
             Then(Error("STDERR", result.stderr),
                  Raise("CalledProcessError")))))
        ELSE Then(pre, IF result.stdout # "" THEN Log("stdout", result.stdout) ELSE Skip)

---------------------------------------------------------------------------
(* The builder object and the process *)

\* AiderWindowsBuilder.__init__
NewBuilder ==
    [output_dir |-> <<"dist">>, temp_dir |-> None, venv_dir |-> None,
     exe_dir |-> None, source_dir |-> None, venv_python |-> None,
     venv_pip |-> None]

Stages ==
    <<"setup_environment", "create_virtual_environment", "install_dependencies",
      "build_executable", "create_config_files", "create_batch_files",
      "create_documentation", "create_final_package">>

NoTree == [exists |-> FALSE, tree |-> <<>>]
NoZip == [exists |-> FALSE, entries |-> <<>>]

AfterStage_IgnoreException(next, raise) ==
    /\ pc' = IF raise = "SystemExit" THEN "finally" ELSE next
    /\ exc' = IF raise = "SystemExit" THEN raise ELSE "none"

AfterStage_Continue(next, raise) ==
    /\ pc' = next
    /\ exc' = raise

\* control transfer at the end of a stage called from build()'s try block
AfterStage(next, raise) ==
    /\ pc' = IF raise = "none" THEN next
             ELSE IF ExceptExceptionCatches(raise) THEN "except"
             ELSE "finally"
    /\ exc' = raise

\* bookkeeping common to every stage
BeginStage(name) ==
    /\ pc = name
    /\ started' = Append(started, name)
    /\ lastStageTime' = clock

Init ==
    /\ run = 1
    /\ pc = "setup_environment"
    /\ exc = "none"
    /\ exitStatus = -1
    /\ out = <<>>
    /\ cmds = <<>>
    /\ started = <<>>
    /\ cleaned = FALSE
    /\ clock = 0
    /\ startTime = 0
    /\ lastStageTime = 0
    /\ self = NewBuilder
    /\ fs = {}
    /\ exeTree = NoTree
    /\ outDir = [exists |-> FALSE, final |-> NoTree, zip |-> NoZip]
    /\ datas = <<>>
    /\ copied = NoTree
    /\ prior = outDir

---------------------------------------------------------------------------
(* setup_environment *)

SrcResources == <<"aider", "resources">>
SrcQueries == <<"aider", "queries">>

\* data directories a source tree may contain
SourceLayouts == {{SrcResources, SrcQueries}, {SrcResources}}

\* mk:      mkdtemp succeeds or raises OSError
\* marker:  pyproject.toml names aider-chat / is absent or names another
\*          project / cannot be read
\* copy:    copytree of the local checkout succeeds or raises
\* fetch:   urlretrieve succeeds or raises
\* archive: the fetched archive extracts to aider-main / extracts to another
\*          top-level directory / has no member / is not a zip file
SetupEnvironment ==
    /\ BeginStage("setup_environment")
    /\ \E mk \in {"ok", "oserror"},
          marker \in {"aider", "other", "unreadable"},
          copy \in {"ok", "error"},
          fetch \in {"ok", "error"},
          archive \in {"aider-main", "renamed", "empty", "corrupt"},
          layout \in SourceLayouts :
        LET tmp == Mkdtemp(run)
            tree(root) == {root} \cup {root \o d : d \in layout}
        IN
        IF mk = "oserror"
        THEN /\ AfterStage("create_virtual_environment", "Exception")
             /\ UNCHANGED <<self, fs>>
        ELSE IF marker = "unreadable"
        THEN /\ self' = [self EXCEPT !.temp_dir = tmp]
             /\ fs' = fs \cup {tmp}
             /\ AfterStage("create_virtual_environment", "Exception")
        ELSE IF marker = "aider"
        THEN IF copy = "ok"
             THEN /\ self' = [self EXCEPT !.temp_dir = tmp,
                                          !.source_dir = tmp \o <<"aider_source">>]
                  /\ fs' = fs \cup {tmp} \cup tree(tmp \o <<"aider_source">>)
                  /\ AfterStage("create_virtual_environment", "none")
             ELSE /\ self' = [self EXCEPT !.temp_dir = tmp,
                                          !.source_dir = tmp \o <<"aider_source">>]
                  /\ fs' = fs \cup {tmp}
                  /\ AfterStage("create_virtual_environment", "Exception")
        ELSE IF fetch = "error"
        THEN /\ self' = [self EXCEPT !.temp_dir = tmp]
             /\ fs' = fs \cup {tmp}
             /\ AfterStage("create_virtual_environment", "Exception")
        ELSE IF archive = "corrupt"
        THEN /\ self' = [self EXCEPT !.temp_dir = tmp]
             /\ fs' = fs \cup {tmp, tmp \o <<"aider.zip">>}
             /\ AfterStage("create_virtual_environment", "Exception")
        ELSE /\ self' = [self EXCEPT !.temp_dir = tmp,
                                     !.source_dir = tmp \o <<"aider-main">>]
             /\ fs' = fs \cup {tmp, tmp \o <<"aider.zip">>}
                         \cup IF archive = "empty" THEN {}
                              ELSE tree(tmp \o <<archive>>)
             /\ AfterStage("create_virtual_environment", "none")
    /\ UNCHANGED <<run, exitStatus, out, cmds, cleaned, clock, startTime,
                   exeTree, outDir, datas, copied, prior>>

---------------------------------------------------------------------------
(* create_virtual_environment *)

VenvPython(venv) ==
    IF OsName = "nt" THEN venv \o <<"Scripts", "python.exe">>
    ELSE venv \o <<"bin", "python">>

VenvPip(venv) ==
    IF OsName = "nt" THEN venv \o <<"Scripts", "pip.exe">>
    ELSE venv \o <<"bin", "pip">>

CreateVirtualEnvironment ==
    /\ BeginStage("create_virtual_environment")
    /\ \E res \in CmdResults :
        LET venv == self.temp_dir \o <<"venv">>
            r == RunCommand("venv", None, res)
        IN  /\ out' = out \o r.out
            /\ cmds' = cmds \o r.cmds
            /\ IF r.raise = "none"
               THEN /\ self' = [self EXCEPT !.venv_dir = venv,
                                            !.venv_python = VenvPython(venv),
                                            !.venv_pip = VenvPip(venv)]
                    /\ fs' = fs \cup {venv, VenvPython(venv), VenvPip(venv)}
               ELSE /\ self' = [self EXCEPT !.venv_dir = venv]
                    /\ UNCHANGED fs
            /\ AfterStage("install_dependencies", r.raise)
    /\ UNCHANGED <<run, exitStatus, cleaned, clock, startTime, exeTree,
                   outDir, datas, copied, prior>>

---------------------------------------------------------------------------
(* install_dependencies *)

optional_deps == <<"help", "browser">>

\* try: body / except: handler   (bare except)
TryExcept(body, handler) ==
    IF body.raise # "none" /\ BareExceptCatches(body.raise)
    THEN Step(body.out \o handler.out, body.cmds, handler.raise)
    ELSE body

\* the loop over optional_deps; res[dep] is the outcome of dep's command
RECURSIVE InstallOptional(_, _)
InstallOptional(deps, res) ==
    IF deps = <<>> THEN Skip
    ELSE Then(TryExcept(RunCommand("install_" \o Head(deps), self.source_dir,
                                   res[Head(deps)]),
                        Log("Optional dependency installation failed, skipping",
                            Head(deps))),
              InstallOptional(Tail(deps), res))

\* the body of install_dependencies
InstallSteps(up, pyi, app, opt) ==
    Then(RunCommand("pip_upgrade", None, up),
    Then(RunCommand("install_pyinstaller", None, pyi),
    Then(RunCommand("install_aider", self.source_dir, app),
         InstallOptional(optional_deps, opt))))

\* what installing the application leaves in the isolated environment:
\* tiktoken not installed / installed without a data directory / with a data
\* directory holding no encoding file / with encoding files
TiktokenLayouts == {"absent", "nodata", "emptydata", "files"}

TiktokenFileNames == {"cl100k_base.tiktoken", "o200k_base.tiktoken"}

TiktokenPkg(venv) == venv \o <<"Lib", "site-packages", "tiktoken">>

TiktokenPaths(venv, layout) ==
    LET pkg == TiktokenPkg(venv)
        data == pkg \o <<"data">>
    IN  CASE layout = "absent" -> {}
          [] layout = "nodata" -> {pkg}
          [] layout = "emptydata" -> {pkg, data}
          [] layout = "files" -> {pkg, data} \cup {data \o <<n>> : n \in TiktokenFileNames}

Succeeded(c, name) == \E i \in 1..Len(c) : c[i] = [cmd |-> name, kind |-> "ok"]

InstallDependencies ==
    /\ BeginStage("install_dependencies")
    /\ \E up \in PipResults, pyi \in PipResults, app \in PipResults,
          opt \in [{"help", "browser"} -> OptResults],
          tk \in TiktokenLayouts :
        LET r == InstallSteps(up, pyi, app, opt)
        IN  /\ out' = out \o r.out
            /\ cmds' = cmds \o r.cmds
            /\ fs' = IF Succeeded(r.cmds, "install_aider")
                     THEN fs \cup TiktokenPaths(self.venv_dir, tk)
                     ELSE fs
            /\ AfterStage("build_executable", r.raise)
    /\ UNCHANGED <<run, exitStatus, cleaned, clock, startTime, self, exeTree,
                   outDir, datas, copied, prior>>

---------------------------------------------------------------------------
(* download_tiktoken_encodings *)

\* try: body / except subprocess.CalledProcessError: handler
TryCalledProcessError(body, handler) ==
    IF body.raise # "none" /\ ExceptCalledProcessErrorCatches(body.raise)
    THEN Step(body.out \o handler.out, body.cmds, handler.raise)
    ELSE body

\* try: body / except Exception: handler
TryException(body, handler) ==
    IF body.raise # "none" /\ ExceptExceptionCatches(body.raise)
    THEN Step(body.out \o handler.out, body.cmds, handler.raise)
    ELSE body

\* the body of download_tiktoken_encodings; test and download are the
\* outcomes of its two diagnostic scripts
DownloadTiktokenEncodings(test, download) ==
    Then(Log("Downloading tiktoken encoding files", ""),
         TryException(Then(Log("Testing tiktoken installation", ""),
             Then(TryCalledProcessError(RunCommand("test_tiktoken", None, test),
                      Then(Log("Warning: tiktoken test failed with return code", ""),
                           Log("This might be due to network issues", ""))),
             Then(Log("Attempting to pre-download tiktoken encodings", ""),
             Then(TryCalledProcessError(RunCommand("download_tiktoken", None, download),
                      Then(Log("Warning: tiktoken encoding download failed with return code", ""),
                           Log("This is not critical", ""))),
                  Log("Tiktoken encoding setup completed", ""))))),
             Then(Log("Warning: Failed to setup tiktoken encodings", ""),
                  Log("The build will continue", ""))))

HasLine(lines, msg) == \E i \in 1..Len(lines) : lines[i].msg = msg

\* the two script files, which stay in the workspace unless the method
\* reaches its unlink calls
TiktokenScripts(tmp, r) ==
    IF HasLine(r.out, "Tiktoken encoding setup completed") THEN {}
    ELSE {tmp \o <<"test_tiktoken.py">>}
         \cup IF HasLine(r.out, "Attempting to pre-download tiktoken encodings")
              THEN {tmp \o <<"download_tiktoken.py">>} ELSE {}

\* install_dependencies with the call of download_tiktoken_encodings at its
\* end (the call is commented out in install_dependencies as shipped)
InstallDependenciesTiktoken ==
    /\ BeginStage("install_dependencies")
    /\ \E up \in PipResults, pyi \in PipResults, app \in PipResults,
          opt \in [{"help", "browser"} -> OptResults],
          tk \in TiktokenLayouts,
          test \in PipResults, download \in OptResults :
        LET i == InstallSteps(up, pyi, app, opt)
            d == DownloadTiktokenEncodings(test, download)
            r == Then(i, d)
        IN  /\ out' = out \o r.out
            /\ cmds' = cmds \o r.cmds
            /\ fs' = IF Succeeded(r.cmds, "install_aider")
                     THEN fs \cup TiktokenPaths(self.venv_dir, tk)
                             \cup IF i.raise = "none"
                                  THEN TiktokenScripts(self.temp_dir, d) ELSE {}
                     ELSE fs
            /\ AfterStage("build_executable", r.raise)
    /\ UNCHANGED <<run, exitStatus, cleaned, clock, startTime, self, exeTree,
                   outDir, datas, copied, prior>>

---------------------------------------------------------------------------
(* create_spec_file and build_executable *)

RECURSIVE SetToSeq(_)
SetToSeq(S) ==
    IF S = {} THEN <<>>
    ELSE LET x == CHOOSE y \in S : TRUE
         IN  <<x>> \o SetToSeq(S \ {x})

Mapping(src, dst) == [src |-> src, dst |-> dst]

\* tiktoken_data_path.glob("*.tiktoken")
GlobTiktoken(files, dir) ==
    {p \in files : /\ Len(p) = Len(dir) + 1
                   /\ IsPrefix(dir, p)
                   /\ p[Len(p)] \in TiktokenFileNames}

RECURSIVE EncodingMappings(_)
EncodingMappings(paths) ==
    IF paths = <<>> THEN <<>>
    ELSE <<Mapping(Head(paths), <<"tiktoken", "data", Head(paths)[Len(Head(paths))]>>)>>
         \o EncodingMappings(Tail(paths))

TiktokenDatas_Unchecked(files, venv) ==
    LET data == TiktokenPkg(venv) \o <<"data">>
        found == EncodingMappings(SetToSeq(GlobTiktoken(files, data)))
    IN  IF TiktokenPkg(venv) \notin files THEN <<>>
        ELSE IF found = <<>> THEN <<Mapping(data, <<"tiktoken", "data">>)>>
        ELSE found

\* the tiktoken probe of the descriptor: `import tiktoken` is served by the
\* isolated environment whose interpreter runs the freezer
TiktokenDatas(files, venv) ==
    LET data == TiktokenPkg(venv) \o <<"data">>
        found == EncodingMappings(SetToSeq(GlobTiktoken(files, data)))
    IN  IF TiktokenPkg(venv) \notin files THEN <<>>
        ELSE IF data \in files
             THEN IF found = <<>> THEN <<Mapping(data, <<"tiktoken", "data">>)>>
                  ELSE found
             ELSE <<>>

\* the `datas` list of the descriptor
SpecDatas(files, source, venv) ==
    <<Mapping(source \o SrcResources, <<"aider", "resources">>),
      Mapping(source \o SrcQueries, <<"aider", "queries">>)>>
    \o TiktokenDatas(files, venv)

\* contents of files are pairs <<what, number>>
ExeFile == <<"aider.exe">>

\* staged trees the freezer may leave in --distpath
FreezerTrees ==
    { (ExeFile :> <<"exe", 1>>) @@ (<<"_internal", "extra.dll">> :> <<"dll", 1>>),
      (ExeFile :> <<"exe", 2>>) }

\* io: the launcher file or the descriptor file cannot be written
BuildExecutable ==
    /\ BeginStage("build_executable")
    /\ \E io \in {"ok", "launcher_error", "spec_error"},
          res \in PipResults, tree \in FreezerTrees :
        LET launcher == self.source_dir \o <<"aider_launcher.py">>
            spec_path == self.temp_dir \o <<"aider.spec">>
            r == RunCommand("pyinstaller", self.temp_dir, res)
            dist == self.temp_dir \o <<"dist">>
        IN
        IF io = "launcher_error"
        THEN /\ AfterStage("create_config_files", "Exception")
             /\ UNCHANGED <<out, cmds, self, fs, exeTree, datas>>
        ELSE IF io = "spec_error"
        THEN /\ fs' = fs \cup {launcher}
             /\ AfterStage("create_config_files", "Exception")
             /\ UNCHANGED <<out, cmds, self, exeTree, datas>>
        ELSE /\ out' = out \o r.out
             /\ cmds' = cmds \o r.cmds
             /\ datas' = IF \E i \in 1..Len(r.cmds) : r.cmds[i].kind # "oserror"
                         THEN SpecDatas(fs, self.source_dir, self.venv_dir)
                         ELSE datas
             /\ IF r.raise = "none"
                THEN /\ self' = [self EXCEPT !.exe_dir = dist]
                     /\ fs' = fs \cup {launcher, spec_path, dist,
                                       self.temp_dir \o <<"build">>}
                     /\ exeTree' = [exists |-> TRUE, tree |-> tree]
                ELSE /\ fs' = fs \cup {launcher, spec_path}
                     /\ UNCHANGED <<self, exeTree>>
             /\ AfterStage("create_config_files", r.raise)
    /\ UNCHANGED <<run, exitStatus, cleaned, clock, startTime, outDir, copied, prior>>

---------------------------------------------------------------------------
(* Artifact files written into the staged tree *)

\* open(path, 'w') ... f.write(content) below self.exe_dir
WriteFile(t, path, content) ==
    [exists |-> t.exists,
     tree |-> [p \in DOMAIN t.tree \cup {path} |->
                 IF p = path THEN content ELSE t.tree[p]]]

\* the first n writes of a sequence of <<path, content>> pairs
RECURSIVE WriteFiles(_, _, _)
WriteFiles(t, writes, n) ==
    IF n = 0 THEN t
    ELSE WriteFile(WriteFiles(t, writes, n - 1), writes[n][1], writes[n][2])

\* datetime.now().strftime("%Y-%m-%d %H:%M:%S"): the clock cut to whole seconds
Strftime(t) == t \div TicksPerSecond

GetBuildTime_AtStart == Strftime(startTime)

\* get_build_time()
GetBuildTime == Strftime(clock)

ConfigWrites_NoSettings ==
    << <<<<".aider.conf.yml">>, <<"config_content", 0>>>> >>

ConfigWrites ==
    << <<<<".aider.conf.yml">>, <<"config_content", 0>>>>,
       <<<<".aider.model.settings.yml">>, <<"model_settings", 0>>>> >>

BatchWrites ==
    << <<<<"start_aider.bat">>, <<"start_bat", 0>>>>,
       <<<<"example_start.bat">>, <<"example_bat", 0>>>> >>

DocWrites == << <<<<"README.md">>, <<"readme_content", GetBuildTime>>>> >>

ComposeStage_IntoOutput(name, next, writes) ==
    /\ BeginStage(name)
    /\ \E n \in 0..Len(writes) :
        /\ outDir' = [outDir EXCEPT !.exists = TRUE,
                                    !.final = WriteFiles([exists |-> TRUE,
                                                          tree |-> outDir.final.tree],
                                                         writes, n)]
        /\ AfterStage(next, IF n = Len(writes) THEN "none" ELSE "Exception")
    /\ UNCHANGED <<run, exitStatus, out, cmds, cleaned, clock, startTime,
                   self, fs, exeTree, datas, copied, prior>>

\* a stage that only writes files: n of them are written before an I/O
\* error ends the stage (n = Len(writes): no error)
ComposeStage(name, next, writes) ==
    /\ BeginStage(name)
    /\ \E n \in 0..Len(writes) :
        /\ exeTree' = WriteFiles(exeTree, writes, n)
        /\ AfterStage(next, IF n = Len(writes) THEN "none" ELSE "Exception")
    /\ UNCHANGED <<run, exitStatus, out, cmds, cleaned, clock, startTime,
                   self, fs, outDir, datas, copied, prior>>

CreateConfigFiles ==
    ComposeStage("create_config_files", "create_batch_files", ConfigWrites)

CreateBatchFiles ==
    ComposeStage("create_batch_files", "create_documentation", BatchWrites)

CreateDocumentation ==
    ComposeStage("create_documentation", "create_final_package", DocWrites)

---------------------------------------------------------------------------
(* create_final_package *)

VersionInfo(t) ==
    [build_time |-> t, python_version |-> "sys.version", platform |-> "Windows",
     components |-> <<"aider", "python_dependencies">>,
     usage |-> "Internal network with OpenAI Compatible API"]

\* json.dump of the version record, as far as build_time goes
JsonDump(info) == <<"version_info", info.build_time>>

VersionFile == <<"version_info.json">>

\* shutil.copytree(src, dst) into a destination that does not exist
CopyTree(src) == [exists |-> TRUE, tree |-> [p \in DOMAIN src.tree |-> src.tree[p]]]

InstallFinal_Merge(prev, staged) ==
    [exists |-> TRUE,
     tree |-> [p \in DOMAIN prev.tree \cup DOMAIN staged.tree |->
                 IF p \in DOMAIN staged.tree THEN staged.tree[p] ELSE prev.tree[p]]]

\* if final_dir.exists(): shutil.rmtree(final_dir); shutil.copytree(exe_dir, final_dir)
InstallFinal(prev, staged) == CopyTree(staged)

\* zip members are stored compressed
Deflate(content) == <<"deflated">> \o content

Inflate(data) == Tail(data)

RECURSIVE ZipEntries(_, _)
ZipEntries(t, names) ==
    IF names = <<>> THEN <<>>
    ELSE <<[name |-> Head(names), data |-> Deflate(t.tree[Head(names)])]>>
         \o ZipEntries(t, Tail(names))

IsHidden(path) == path \in {<<".aider.conf.yml">>, <<".aider.model.settings.yml">>}

MakeArchive_SkipHidden(t) ==
    [exists |-> TRUE,
     entries |-> ZipEntries(t, SetToSeq({p \in DOMAIN t.tree : ~IsHidden(p)}))]

\* shutil.make_archive(base, 'zip', root_dir): every file below root_dir,
\* named relative to it
MakeArchive(t) == [exists |-> TRUE, entries |-> ZipEntries(t, SetToSeq(DOMAIN t.tree))]

\* zipfile extractall: each member written at its name, later members
\* overwriting earlier ones
RECURSIVE ExtractAll(_)
ExtractAll(entries) ==
    IF entries = <<>> THEN <<>>
    ELSE LET e == entries[Len(entries)]
             rest == ExtractAll(SubSeq(entries, 1, Len(entries) - 1))
         IN  [p \in DOMAIN rest \cup {e.name} |->
                 IF p = e.name THEN Inflate(e.data) ELSE rest[p]]

\* fail: the step of create_final_package that raises an I/O error
CreateFinalPackage ==
    /\ BeginStage("create_final_package")
    /\ \E fail \in {"none", "mkdir", "write", "copytree", "make_archive"} :
        LET staged == WriteFile(exeTree, VersionFile, JsonDump(VersionInfo(GetBuildTime)))
            final == InstallFinal(outDir.final, staged)
        IN
        CASE fail = "mkdir" ->
                /\ UNCHANGED <<out, exeTree, outDir, copied>>
                /\ AfterStage("finally", "Exception")
          [] fail = "write" ->
                /\ outDir' = [outDir EXCEPT !.exists = TRUE]
                /\ UNCHANGED <<out, exeTree, copied>>
                /\ AfterStage("finally", "Exception")
          [] fail = "copytree" ->
                /\ exeTree' = staged
                /\ outDir' = [outDir EXCEPT !.exists = TRUE, !.final = NoTree]
                /\ UNCHANGED <<out, copied>>
                /\ AfterStage("finally", "Exception")
          [] fail = "make_archive" ->
                /\ exeTree' = staged
                /\ copied' = staged
                /\ outDir' = [exists |-> TRUE, final |-> final, zip |-> NoZip]
                /\ UNCHANGED out
                /\ AfterStage("finally", "Exception")
          [] fail = "none" ->
                /\ exeTree' = staged
                /\ copied' = staged
                /\ outDir' = [exists |-> TRUE, final |-> final, zip |-> MakeArchive(final)]
                /\ out' = out \o Log("Offline package created successfully", "").out
                             \o Log("Build completed", "").out
                /\ AfterStage("finally", "none")
    /\ UNCHANGED <<run, exitStatus, cmds, cleaned, clock, startTime, self, fs, datas, prior>>

---------------------------------------------------------------------------
(* build(): except / finally, cleanup, and the end of the process *)

\* except Exception as e: self.error(f"Build failed: {e}")
BuildExcept ==
    /\ pc = "except"
    /\ LET e == Error("Build failed", "")
       IN  /\ out' = out \o e.out
           /\ exc' = e.raise
    /\ pc' = "finally"
    /\ UNCHANGED <<run, exitStatus, cmds, started, cleaned, clock, startTime,
                   lastStageTime, self, fs, exeTree, outDir, datas, copied, prior>>

Rmtree_ContentsOnly(files, root) == {p \in files : ~Under(p, root) \/ p = root}

\* shutil.rmtree(root, ignore_errors=True), meeting no error
Rmtree(files, root) == {p \in files : ~Under(p, root)}

\* finally: self.cleanup()
Cleanup ==
    /\ pc = "finally"
    /\ IF self.temp_dir # None /\ self.temp_dir \in fs
       THEN /\ out' = out \o Log("Cleaning up temporary files", "").out
            /\ fs' = Rmtree(fs, self.temp_dir)
            /\ exeTree' = IF self.temp_dir \in Rmtree(fs, self.temp_dir)
                          THEN exeTree ELSE NoTree
       ELSE UNCHANGED <<out, fs, exeTree>>
    /\ cleaned' = TRUE
    /\ pc' = "exit"
    /\ UNCHANGED <<run, exc, exitStatus, cmds, started, clock, startTime,
                   lastStageTime, self, outDir, datas, copied, prior>>

\* the status the interpreter exits with: sys.exit(1) in flight, or main() returned
ExitStatusOf(e) == IF e = "none" THEN 0 ELSE 1

\* main(): build() has returned or SystemExit leaves it; the process ends
ProcessExit ==
    /\ pc = "exit"
    /\ exitStatus' = ExitStatusOf(exc)
    /\ pc' = "terminated"
    /\ UNCHANGED <<run, exc, out, cmds, started, cleaned, clock, startTime,
                   lastStageTime, self, fs, exeTree, outDir, datas, copied, prior>>

\* the command is invoked again with the same output directory
NextRun ==
    /\ pc = "terminated"
    /\ run < MaxRuns
    /\ run' = run + 1
    /\ pc' = "setup_environment"
    /\ exc' = "none"
    /\ exitStatus' = -1
    /\ out' = <<>>
    /\ cmds' = <<>>
    /\ started' = <<>>
    /\ cleaned' = FALSE
    /\ startTime' = clock
    /\ lastStageTime' = clock
    /\ self' = NewBuilder
    /\ datas' = <<>>
    /\ copied' = NoTree
    /\ prior' = outDir
    /\ UNCHANGED <<clock, fs, exeTree, outDir>>

\* the wall clock advances
Tick ==
    /\ clock < MaxClock
    /\ clock' = clock + 1
    /\ UNCHANGED <<run, pc, exc, exitStatus, out, cmds, started, cleaned,
                   startTime, lastStageTime, self, fs, exeTree, outDir, datas,
                   copied, prior>>

Next ==
    \/ SetupEnvironment
    \/ CreateVirtualEnvironment
    \/ InstallDependencies
    \/ BuildExecutable
    \/ CreateConfigFiles
    \/ CreateBatchFiles
    \/ CreateDocumentation
    \/ CreateFinalPackage
    \/ BuildExcept
    \/ Cleanup
    \/ ProcessExit
    \/ NextRun
    \/ Tick

Spec == Init /\ [][Next]_vars

\* the pipeline with download_tiktoken_encodings called from install_dependencies
NextTiktoken ==
    \/ SetupEnvironment
    \/ CreateVirtualEnvironment
    \/ InstallDependenciesTiktoken
    \/ BuildExecutable
    \/ CreateConfigFiles
    \/ CreateBatchFiles
    \/ CreateDocumentation
    \/ CreateFinalPackage
    \/ BuildExcept
    \/ Cleanup
    \/ ProcessExit
    \/ NextRun
    \/ Tick

SpecTiktoken == Init /\ [][NextTiktoken]_vars

---------------------------------------------------------------------------
(* Vocabulary of the properties *)

StageSet == {Stages[i] : i \in 1..Len(Stages)}

Latest(seq) == seq[Len(seq)]

OptionalCmds == {"install_" \o optional_deps[i] : i \in 1..Len(optional_deps)}

IsOptionalCmd(c) == c.cmd \in OptionalCmds

CmdNames(seq) == [i \in 1..Len(seq) |-> seq[i].cmd]

\* the workspace directory made by setup_environment in this process
Workspace == Mkdtemp(run)

Printed(msg, arg) == \E i \in 1..Len(out) : out[i].msg = msg /\ out[i].arg = arg

PrintedMsg(msg) == \E i \in 1..Len(out) : out[i].msg = msg

\* no step other than an optional install went wrong in this process
NoFatalFault ==
    /\ \A i \in 1..Len(cmds) : cmds[i].kind = "ok" \/ IsOptionalCmd(cmds[i])
    /\ ~PrintedMsg("Build failed")

\* create_final_package of this process has run to its end
Packaged ==
    /\ started = Stages
    /\ copied.exists
    /\ outDir.zip.exists
    /\ outDir.zip = MakeArchive(outDir.final)

\* json.load of the version record
JsonLoad(content) == [build_time |-> content[2]]

\* datetime.strptime(s, "%Y-%m-%d %H:%M:%S"): the instant a time stamp names
Strptime(s) == s * TicksPerSecond

BuildTimeOf(t) == JsonLoad(t.tree[VersionFile]).build_time

---------------------------------------------------------------------------
(* C1 *)

---------------------------------------------------------------------------
(* C2 *)

\* C2: whichever optional installs exit non-zero, once the application itself
\* is installed each optional entry is attempted exactly once, in list order,
\* and install_dependencies returns normally; and a process in which nothing
\* but optional installs failed ends with create_final_package run and the
\* archive produced.
C2_OptionalFailureNotFatal ==
    /\ Succeeded(cmds, "install_aider") =>
          /\ CmdNames(SelectSeq(cmds, IsOptionalCmd)) =
                <<"install_help", "install_browser">>
          /\ pc = "build_executable" \/ "build_executable" \in
                                          {started[i] : i \in 1..Len(started)}
    /\ (pc = "terminated" /\ NoFatalFault) =>
          /\ Latest(started) = "create_final_package"
          /\ Packaged

\* both optional installs failed and the archive was still produced
C2_Witness ==
    /\ pc = "terminated"
    /\ \E i \in 1..Len(cmds) : cmds[i] = [cmd |-> "install_help", kind |-> "nonzero"]
    /\ \E i \in 1..Len(cmds) : cmds[i] = [cmd |-> "install_browser", kind |-> "nonzero"]
    /\ NoFatalFault
    /\ Packaged

---------------------------------------------------------------------------
(* C3 *)

\* C3: while an exception raised by a stage is in flight the process is in
\* build()'s except clause, in its finally clause or past it, and no further
\* stage is started: the list of started stages does not grow.
C3_NoStageAfterFatalFailure ==
    [][exc # "none" =>
          /\ pc \in {"except", "finally", "exit", "terminated"}
          /\ started' = started \/ run' = run + 1]_vars

\* the application install failed and the process ended without a later stage
C3_Witness ==
    /\ pc = "terminated"
    /\ cleaned
    /\ exc = "SystemExit"
    /\ started = SubSeq(Stages, 1, 3)
    /\ Latest(cmds) = [cmd |-> "install_aider", kind |-> "nonzero"]

---------------------------------------------------------------------------
(* C4 *)

\* C4: a terminated process has exit status 0 exactly when all eight stages
\* ran and the final package was produced, exit status 1 otherwise, and in
\* both cases cleanup() ran before it terminated.
C4_ExitStatus ==
    pc = "terminated" =>
        /\ cleaned
        /\ exitStatus \in {0, 1}
        /\ exitStatus = 0 <=> Packaged
        /\ exitStatus = 0 <=> NoFatalFault

\* a stage raised an exception (not a failing command) and the process still
\* ended with status 1 after cleanup
C4_Witness ==
    /\ pc = "terminated"
    /\ exitStatus = 1
    /\ cleaned
    /\ PrintedMsg("Build failed")
    /\ \A i \in 1..Len(cmds) : cmds[i].kind = "ok"

---------------------------------------------------------------------------
(* C5 *)

\* the process ended because a non-optional command exited non-zero
TerminatedByCommand ==
    /\ pc = "terminated"
    /\ exc = "SystemExit"
    /\ Len(cmds) > 0
    /\ Latest(cmds).kind = "nonzero"
    /\ ~IsOptionalCmd(Latest(cmds))

\* C5: when a command run through run_command exits non-zero and this ends
\* the pipeline, its captured stdout and its captured stderr have both been
\* printed by the time the process has terminated.
C5_OutputPrintedBeforeExit ==
    TerminatedByCommand =>
        /\ Printed("STDOUT", Failed.stdout)
        /\ Printed("STDERR", Failed.stderr)

---------------------------------------------------------------------------
(* C6 *)

\* the process succeeded and found the final directory and the archive of
\* an earlier run in its output directory
SucceededOverPriorOutput ==
    /\ pc = "terminated"
    /\ exitStatus = 0
    /\ run >= 2
    /\ prior.final.exists
    /\ prior.zip.exists

\* C6: after a successful run over the output of an earlier successful run,
\* the final directory and the archive each hold exactly the files of this
\* run's staged tree, with this run's contents: nothing of the earlier run
\* is left in either.
C6_SecondRunReplacesFirst ==
    SucceededOverPriorOutput =>
        /\ outDir.final.exists /\ outDir.zip.exists
        /\ DOMAIN outDir.final.tree = DOMAIN copied.tree
        /\ {outDir.zip.entries[i].name : i \in 1..Len(outDir.zip.entries)}
              = DOMAIN copied.tree
        /\ Len(outDir.zip.entries) = Cardinality(DOMAIN copied.tree)
        /\ \A p \in DOMAIN copied.tree :
              /\ outDir.final.tree[p] = copied.tree[p]
              /\ ExtractAll(outDir.zip.entries)[p] = copied.tree[p]

\* the earlier run left a file that this run's staged tree does not have
C6_Witness ==
    /\ SucceededOverPriorOutput
    /\ \E p \in DOMAIN prior.final.tree : p \notin DOMAIN copied.tree
    /\ \E i \in 1..Len(prior.zip.entries) :
          prior.zip.entries[i].name \notin DOMAIN copied.tree

---------------------------------------------------------------------------
(* C7 *)

\* create_final_package has just returned normally
JustPackaged ==
    /\ pc = "finally"
    /\ exc = "none"
    /\ Latest(started) = "create_final_package"

\* C7: when create_final_package has returned normally, extracting the
\* archive gives the final directory, and the final directory is the staged
\* tree as it was copied (which is the staged tree still on disk).
C7_ArchiveRoundTrip ==
    JustPackaged =>
        /\ outDir.zip.exists /\ outDir.final.exists
        /\ ExtractAll(outDir.zip.entries) = outDir.final.tree
        /\ outDir.final.tree = copied.tree
        /\ copied = exeTree

\* a packaged tree with the executable, a file in a subdirectory and all
\* generated artifacts
C7_Witness ==
    /\ JustPackaged
    /\ Cardinality(DOMAIN outDir.final.tree) = 8
    /\ <<"_internal", "extra.dll">> \in DOMAIN ExtractAll(outDir.zip.entries)

---------------------------------------------------------------------------
(* C8 *)

RequiredArtifacts ==
    {<<".aider.conf.yml">>, <<".aider.model.settings.yml">>, <<"start_aider.bat">>,
     <<"README.md">>, VersionFile}

\* C8: a process that exits with status 0, and every process in which the
\* installer and freezer commands succeeded and no stage met an error,
\* leaves the output directory with the final directory holding the
\* configuration file, the model-settings file, the launcher script,
\* README.md and version_info.json (and the executable), and with the
\* archive present.
C8_SuccessfulRunHasArtifacts ==
    (pc = "terminated" /\ (exitStatus = 0 \/ NoFatalFault)) =>
        /\ outDir.exists /\ outDir.final.exists /\ outDir.zip.exists
        /\ RequiredArtifacts \subseteq DOMAIN outDir.final.tree
        /\ ExeFile \in DOMAIN outDir.final.tree
        /\ outDir.final.tree[<<".aider.conf.yml">>] = <<"config_content", 0>>
        /\ outDir.final.tree[<<".aider.model.settings.yml">>] = <<"model_settings", 0>>
        /\ outDir.final.tree[<<"start_aider.bat">>] = <<"start_bat", 0>>

\* a successful run from a local checkout
C8_Witness ==
    /\ pc = "terminated"
    /\ exitStatus = 0
    /\ self.source_dir = Workspace \o <<"aider_source">>
    /\ \A i \in 1..Len(cmds) : cmds[i].kind = "ok"

---------------------------------------------------------------------------
(* C9 *)

\* the step in which create_final_package writes the version record and
\* copies the staged tree
Packaging == pc = "create_final_package" /\ copied'.exists

\* C9 as stated: build_time names an instant that is not earlier than the
\* start of the pipeline nor than the time any preceding stage ran.
C9_BuildTimeNotEarlier ==
    [][Packaging =>
          /\ Strptime(BuildTimeOf(copied')) >= startTime
          /\ Strptime(BuildTimeOf(copied')) >= lastStageTime]_vars

\* C9 amended: build_time is the clock read in create_final_package cut to
\* whole seconds; it is not earlier than the second in which the pipeline
\* started nor than the second in which any preceding stage ran, and the
\* instant it names is less than one second before the clock value read.
C9_BuildTimeWholeSeconds ==
    [][Packaging =>
          /\ BuildTimeOf(copied') = Strftime(lastStageTime')
          /\ BuildTimeOf(outDir'.final) = BuildTimeOf(copied')
          /\ BuildTimeOf(copied') >= Strftime(startTime)
          /\ BuildTimeOf(copied') >= Strftime(lastStageTime)
          /\ Strptime(BuildTimeOf(copied')) <= lastStageTime'
          /\ lastStageTime' < Strptime(BuildTimeOf(copied')) + TicksPerSecond]_vars

\* packaged in a later second than the one the pipeline started in
C9_Witness ==
    /\ JustPackaged
    /\ BuildTimeOf(outDir.final) > Strftime(startTime)
    /\ lastStageTime > startTime

---------------------------------------------------------------------------
(* C10 *)

\* the freezer has evaluated the descriptor and the workspace is still there
DescriptorConsumed ==
    /\ datas # <<>>
    /\ pc \in {"create_config_files", "except", "finally"}
    /\ Latest(started) = "build_executable"

\* C10 as stated: every data mapping's source path exists and lies under
\* the source root when the freezer consumes the descriptor.
C10_SourcesExistUnderSourceRoot ==
    DescriptorConsumed =>
        \A i \in 1..Len(datas) :
            /\ datas[i].src \in fs
            /\ Under(datas[i].src, self.source_dir)

\* C10 amended: the two fixed mappings (aider/resources, aider/queries) have
\* source paths under the source root; every tokenizer mapping has a source
\* path that exists and lies under the data directory of the tiktoken
\* package installed in the isolated environment, outside the source root.
C10_MappingSources ==
    DescriptorConsumed =>
        /\ Len(datas) >= 2
        /\ \A i \in 1..Len(datas) :
              IF i <= 2
              THEN Under(datas[i].src, self.source_dir)
              ELSE /\ datas[i].src \in fs
                   /\ Under(datas[i].src, TiktokenPkg(self.venv_dir) \o <<"data">>)
                   /\ ~Under(datas[i].src, self.source_dir)

\* the probe added one mapping per encoding file
C10_Witness ==
    /\ DescriptorConsumed
    /\ Len(datas) = 2 + Cardinality(TiktokenFileNames)

---------------------------------------------------------------------------
(* C11 *)

\* the remote archive was fetched and the expected top-level directory
\* aider-main is not in the workspace (the workspace still being there)
BadArchive ==
    /\ Workspace \o <<"aider.zip">> \in fs
    /\ Workspace \o <<"aider-main">> \notin fs

\* C11: when the fetched archive is corrupt, empty or lacks the expected
\* top-level directory, the pipeline fails in setup_environment itself: no
\* later stage has started, build() is in its except or finally clause, and
\* the source root is not set to a path that does not exist.
C11_BadArchiveFailsInAcquisition ==
    BadArchive =>
        /\ started = <<"setup_environment">>
        /\ pc \in {"except", "finally"}
        /\ self.source_dir = None \/ self.source_dir \in fs

---------------------------------------------------------------------------
(* C12 *)

StartedSet == {started[i] : i \in 1..Len(started)}

\* the source has been acquired: copied from the checkout or fetched
SourceAcquired ==
    /\ self.source_dir # None
    /\ self.source_dir \in fs \/ Workspace \o <<"aider.zip">> \in fs

---------------------------------------------------------------------------
(* C14 *)

\* C14: as long as create_final_package has not been started by a process,
\* the output directory is exactly as the process found it: not created if
\* it was absent, final directory and archive of an earlier run unchanged.
\* In particular this holds once such a process has terminated.
C14_OutputUntouchedBeforePackaging ==
    "create_final_package" \notin StartedSet => outDir = prior

\* the freezer failed in a run over the output of an earlier successful run
C14_Witness ==
    /\ pc = "terminated"
    /\ exitStatus = 1
    /\ Latest(started) = "build_executable"
    /\ prior.final.exists /\ prior.zip.exists
    /\ outDir = prior

---------------------------------------------------------------------------
(* C13 *)

\* one of the two diagnostic scripts of download_tiktoken_encodings exited
\* non-zero
DiagnosticFailed ==
    \E i \in 1..Len(cmds) :
        /\ cmds[i].cmd \in {"test_tiktoken", "download_tiktoken"}
        /\ cmds[i].kind = "nonzero"

\* C13: when download_tiktoken_encodings runs and one of its diagnostic
\* scripts exits non-zero, the method logs a warning and returns normally:
\* the process does not exit from it and the next stage is executed.
C13_DiagnosticFailureIsAdvisory ==
    DiagnosticFailed =>
        /\ \/ PrintedMsg("Warning: tiktoken test failed with return code")
           \/ PrintedMsg("Warning: tiktoken encoding download failed with return code")
        /\ pc = "build_executable" \/ "build_executable" \in StartedSet

====
